---- MODULE Spec2Model ----
(***************************************************************************)
(* Model of the dashboard service in src/app.py: the persisted-state file  *)
(* data.json, the three read-only workspace inputs (stats.json, the dated  *)
(* note files under memory/, HEARTBEAT.md), the three aggregators and the  *)
(* four basic-auth protected endpoints.                                    *)
(*                                                                         *)
(* Text is modelled as a sequence of one-character strings so that the     *)
(* marker tests, strip() and lstrip() are computed as Python computes them.*)
(* A file's content is the sequence of its lines, i.e. the value of        *)
(* content.split("\n").                                                    *)
(***************************************************************************)
EXTENDS Integers, Sequences, FiniteSets, TLC

VARIABLES dataFile, statsFile, notes, heartbeat, now, req, resp, nmut, proc

vars == <<dataFile, statsFile, notes, heartbeat, now, req, resp, nmut, proc>>

-----------------------------------------------------------------------------
(* Bounds of the model.                                                    *)

\* number of successful mutation requests explored in one behaviour
MaxMutations == 2

\* number of half days the clock advances
MaxTicks == 1

\* number of server processes sharing data.json in the concurrent model
NumWorkers == 2

-----------------------------------------------------------------------------
(* Program constants.                                                      *)

DASHBOARD_USER == "kai"
DASHBOARD_PASS == "ablent2026"

\* list(set(achievements_24h))[:20], list(set(achievements_week))[:50]
Cap24h == 20
CapWeek == 50
\* todos[:30]
CapTodo == 30
\* (now - file_date).days < 1, (now - file_date).days < 7
Window24h == 1
WindowWeek == 7
\* line[5:]
TodoPrefixLen == 5
\* "last_updated": None
None == -1

-----------------------------------------------------------------------------
(* Text: sequences of one-character strings.                               *)

CheckMark == "V"   \* stands for the character U+2713

Range(s) == {s[i] : i \in 1..Len(s)}

Reverse(s) == [i \in 1..Len(s) |-> s[Len(s) + 1 - i]]

Take(s, n) == SubSeq(s, 1, IF Len(s) < n THEN Len(s) ELSE n)

\* str.lower() on one character (the upper-case letters the model uses)
LowerChar(c) ==
    CASE c = "C" -> "c" [] c = "O" -> "o" [] c = "M" -> "m" [] c = "P" -> "p"
      [] c = "L" -> "l" [] c = "E" -> "e" [] c = "T" -> "t" [] c = "D" -> "d"
      [] OTHER -> c

Lower(s) == [i \in 1..Len(s) |-> LowerChar(s[i])]

StartsWith(s, p) == Len(s) >= Len(p) /\ SubSeq(s, 1, Len(p)) = p

Contains(s, sub) ==
    \E i \in 1..(Len(s) - Len(sub) + 1) : SubSeq(s, i, i + Len(sub) - 1) = sub

\* s.lstrip(chars): drop the longest prefix made of characters of chars
RECURSIVE LStrip(_, _)
LStrip(s, chars) ==
    IF s # <<>> /\ Head(s) \in chars THEN LStrip(Tail(s), chars) ELSE s

RECURSIVE RStrip(_, _)
RStrip(s, chars) ==
    IF s # <<>> /\ s[Len(s)] \in chars
    THEN RStrip(SubSeq(s, 1, Len(s) - 1), chars) ELSE s

Whitespace == {" "}

\* s.strip()
Strip(s) == RStrip(LStrip(s, Whitespace), Whitespace)

DoneMarker == <<"-", " ", "[", "x", "]">>
OpenMarker == <<"-", " ", "[", " ", "]">>
CompletedWord == <<"c", "o", "m", "p", "l", "e", "t", "e", "d">>

\* the character set of line.lstrip("- [x]<check> ")
MarkerChars == {"-", " ", "[", "x", "]", CheckMark}

-----------------------------------------------------------------------------
(* Persisted state (data.json).                                            *)

DefaultDoc ==
    [token_usage |-> [total |-> 0, today |-> 0, week |-> 0],
     achievements_24h |-> <<>>,
     achievements_week |-> <<>>,
     todo |-> <<>>,
     last_updated |-> None]

\* load_data raises when the file exists and is not valid JSON
load_raises(df) == df.kind = "malformed"

\* variant: the stored document is ignored, the defaults are returned
load_data_defaults(df) == DefaultDoc

load_data(df) == IF df.kind = "ok" THEN df.doc ELSE DefaultDoc

save_data(data, t) == [kind |-> "ok", doc |-> [data EXCEPT !.last_updated = t]]

-----------------------------------------------------------------------------
(* Token usage resolver.                                                   *)

\* dict.get(key, default)
Get(obj, key, default) == IF key \in DOMAIN obj THEN obj[key] ELSE default

\* the triple built from a stats object
StatsTriple(obj) ==
    [total |-> Get(obj, "total_tokens", 0),
     today |-> Get(obj, "today_tokens", 0),
     week  |-> Get(obj, "week_tokens", 0)]

\* json.loads fails, or stats.get fails because the JSON value is no object
stats_fails(sf) == sf.kind \in {"garbage", "nonobject"}

\* the stats file decides the result: it exists and the try block returns
stats_wins(sf) == sf.kind # "absent" /\ ~stats_fails(sf)

\* variant: a key missing from the stats object falls back to the persisted
\* counter instead of 0
get_token_usage_merged(sf, df) ==
    IF stats_wins(sf)
    THEN [total |-> Get(sf.obj, "total_tokens", load_data(df).token_usage.total),
          today |-> Get(sf.obj, "today_tokens", load_data(df).token_usage.today),
          week  |-> Get(sf.obj, "week_tokens", load_data(df).token_usage.week)]
    ELSE load_data(df).token_usage

get_token_usage(sf, df) ==
    IF stats_wins(sf) THEN StatsTriple(sf.obj)
    ELSE load_data(df).token_usage

-----------------------------------------------------------------------------
(* Achievement aggregator.                                                 *)

\* (now - file_date).days, the clock counting half days and file_date
\* being midnight of the day in the file name
\* variant: the difference is rounded up to whole days
Days_rounded_up(t, day) == (t - 2 * day + 1) \div 2

Days(t, day) == (t - 2 * day) \div 2

is_achievement_line(l) ==
    \/ StartsWith(l, DoneMarker)
    \/ StartsWith(l, <<CheckMark>>)
    \/ Contains(Lower(l), CompletedWord)

\* line.lstrip("- [x]<check> ").strip()
achievement_of(l) == Strip(LStrip(l, MarkerChars))

\* The loops over lines and list entries are folds from left to right. They
\* are evaluated by halving the sequence, which visits the entries in the same
\* order and keeps the evaluation shallow on long sequences.
FirstHalf(s) == SubSeq(s, 1, Len(s) \div 2)
SecondHalf(s) == SubSeq(s, (Len(s) \div 2) + 1, Len(s))

\* the achievements one file appends, in line order
RECURSIVE file_achievements(_)
file_achievements(lines) ==
    IF lines = <<>> THEN <<>>
    ELSE IF Len(lines) = 1
    THEN LET l == Strip(lines[1])
         IN IF is_achievement_line(l) /\ achievement_of(l) # <<>>
            THEN <<achievement_of(l)>>
            ELSE <<>>
    ELSE file_achievements(FirstHalf(lines))
            \o file_achievements(SecondHalf(lines))

\* the try block fails for this file: strptime or read_text raises
file_skipped(f) == ~f.stem.valid \/ ~f.readable

\* variant: the window includes its last day (<= instead of <)
RECURSIVE note_achievements_inclusive(_, _, _)
note_achievements_inclusive(files, t, window) ==
    IF files = <<>> THEN <<>>
    ELSE LET f == Head(files)
             rest == note_achievements_inclusive(Tail(files), t, window)
         IN IF ~file_skipped(f) /\ (t - 2 * f.stem.day) \div 2 <= window
            THEN file_achievements(f.lines) \o rest
            ELSE rest

\* what the loop over the note files appends to a list with the given window
RECURSIVE note_achievements(_, _, _)
note_achievements(files, t, window) ==
    IF files = <<>> THEN <<>>
    ELSE LET f == Head(files)
             rest == note_achievements(Tail(files), t, window)
         IN IF ~file_skipped(f) /\ Days(t, f.stem.day) < window
            THEN file_achievements(f.lines) \o rest
            ELSE rest

note_files(nd) == IF nd.exists THEN nd.files ELSE <<>>

\* variant: the stored achievements are not added
collected_24h_notes_only(nd, df, t) ==
    note_achievements(note_files(nd), t, Window24h)

collected_24h(nd, df, t) ==
    note_achievements(note_files(nd), t, Window24h)
        \o load_data(df).achievements_24h

collected_week(nd, df, t) ==
    note_achievements(note_files(nd), t, WindowWeek)
        \o load_data(df).achievements_week

\* the elements of xs in order of first occurrence
FirstOcc(xs) ==
    LET First(i) == \A j \in 1..(i - 1) : xs[j] # xs[i]
        Mark(p) == First(p[1])
        marked == SelectSeq([i \in 1..Len(xs) |-> <<i, xs[i]>>], Mark)
    IN [i \in 1..Len(marked) |-> marked[i][2]]

\* the subsets of S that lack k of its elements
RECURSIVE Drop(_, _)
Drop(S, k) == IF k = 0 THEN {S} ELSE UNION {Drop(S \ {e}, k - 1) : e \in S}

Restrict(xs, K) == LET In(x) == x \in K IN SelectSeq(xs, In)

\* variant: the slice without the set
truncate_only(xs, cap) == {Take(xs, cap)}

\* list(set(xs))[:cap]. The iteration order of a set of strings depends on
\* the process's hash seed, so which elements survive the slice is a free
\* choice; the survivors are listed in first-occurrence order or its reverse.
dedupe_truncate(xs, cap) ==
    LET S == Range(xs)
        k == IF Cardinality(S) > cap THEN Cardinality(S) - cap ELSE 0
    IN UNION {{Restrict(FirstOcc(xs), K), Reverse(Restrict(FirstOcc(xs), K))}
                : K \in Drop(S, k)}

get_achievements(nd, df, t) ==
    {[achievements_24h |-> a, achievements_week |-> w] :
        a \in dedupe_truncate(collected_24h(nd, df, t), Cap24h),
        w \in dedupe_truncate(collected_week(nd, df, t), CapWeek)}

-----------------------------------------------------------------------------
(* Todo aggregator.                                                        *)

\* line[5:].strip()
task_of(l) == Strip(SubSeq(l, TodoPrefixLen + 1, Len(l)))

RECURSIVE heartbeat_todos(_)
heartbeat_todos(lines) ==
    IF lines = <<>> THEN <<>>
    ELSE IF Len(lines) = 1
    THEN LET l == Strip(lines[1])
         IN IF StartsWith(l, OpenMarker)
            THEN <<[task |-> task_of(l), done |-> FALSE,
                    source |-> "heartbeat"]>>
            ELSE IF StartsWith(l, DoneMarker)
            THEN <<[task |-> task_of(l), done |-> TRUE,
                    source |-> "heartbeat"]>>
            ELSE <<>>
    ELSE heartbeat_todos(FirstHalf(lines)) \o heartbeat_todos(SecondHalf(lines))

\* variant: a stored todo is skipped when an entry has the same task
RECURSIVE append_new_by_task(_, _)
append_new_by_task(todos, stored) ==
    IF stored = <<>> THEN todos
    ELSE IF Len(stored) = 1
    THEN IF \E i \in 1..Len(todos) : todos[i].task = stored[1].task
         THEN todos ELSE Append(todos, stored[1])
    ELSE LET acc == append_new_by_task(todos, FirstHalf(stored))
         IN IF Len(acc) >= 0 THEN append_new_by_task(acc, SecondHalf(stored))
            ELSE acc

\* variant: every stored todo is appended
append_all(todos, stored) == todos \o stored

\* for todo in stored: if todo not in todos: todos.append(todo)
RECURSIVE append_new(_, _)
append_new(todos, stored) ==
    IF stored = <<>> THEN todos
    ELSE IF Len(stored) = 1
    THEN IF stored[1] \in Range(todos) THEN todos ELSE Append(todos, stored[1])
    ELSE LET acc == append_new(todos, FirstHalf(stored))
         IN \* Len(acc) evaluates the list built so far before going on
            IF Len(acc) >= 0 THEN append_new(acc, SecondHalf(stored)) ELSE acc

heartbeat_lines(hb) == IF hb.exists THEN hb.lines ELSE <<>>

get_todos(hb, df) ==
    Take(append_new(heartbeat_todos(heartbeat_lines(hb)), load_data(df).todo),
         CapTodo)

-----------------------------------------------------------------------------
(* Authentication.                                                         *)

\* variant: the password is not compared
verify_auth_user_only(username, password) == username = DASHBOARD_USER

\* secrets.compare_digest on both fields, the user name first
verify_auth(username, password) ==
    username = DASHBOARD_USER /\ password = DASHBOARD_PASS

-----------------------------------------------------------------------------
(* The mutation each endpoint applies to the loaded document.              *)

\* variant: only the period "week" selects the week list
append_achievement_week_only(data, text, period) ==
    IF period = "week"
    THEN [data EXCEPT !.achievements_week = Append(@, text)]
    ELSE [data EXCEPT !.achievements_24h = Append(@, text)]

append_achievement(data, text, period) ==
    IF period = "24h"
    THEN [data EXCEPT !.achievements_24h = Append(@, text)]
    ELSE [data EXCEPT !.achievements_week = Append(@, text)]

append_todo(data, task, done) ==
    [data EXCEPT !.todo = Append(@, [task |-> task, done |-> done])]

replace_tokens(data, total, today, week) ==
    [data EXCEPT !.token_usage =
        [total |-> total, today |-> today, week |-> week]]

\* the handler body between load_data and save_data, by endpoint
mutate(data, op, p) ==
    CASE op = "achievement" -> append_achievement(data, p.text, p.period)
      [] op = "todo" -> append_todo(data, p.task, p.done)
      [] op = "tokens" -> replace_tokens(data, p.total, p.today, p.week)

-----------------------------------------------------------------------------
(* Inputs.                                                                 *)

TextSF == <<"s", "f">>
TextAB == <<"a", "b">>

Users == {DASHBOARD_USER, "eve"}
Passwords == {DASHBOARD_PASS, "guess"}

PostTexts == {TextSF, TextAB}
Periods == {"24h", "week", "month"}
PostTasks == {TextAB}
TokenValues == {[total |-> 7, today |-> 3, week |-> 4],
                [total |-> 0, today |-> 0, week |-> 0]}

AchievementParams == [text : PostTexts, period : Periods]
TodoParams == [task : PostTasks, done : BOOLEAN]

NoParams == [none |-> TRUE]

\* lines of the workspace files
LineShipped == DoneMarker \o <<" ">> \o TextSF
LineChecked == <<CheckMark, " ">> \o TextAB
LineCompleted == TextAB \o <<" ", "C", "o", "m", "p", "l", "e", "t", "e", "d">>
LineOpen == OpenMarker \o <<" ">> \o TextAB
LineBare == DoneMarker \o <<" ", "x">>
LineIndented == <<" ", " ">> \o DoneMarker \o <<" ", "x">> \o TextSF \o <<" ">>
LinePlain == TextSF

\* distinct three-letter texts, used to fill a list up to its cap
Letters == <<"a", "b", "s", "f">>
BulkText(i) ==
    <<Letters[((i \div 16) % 4) + 1], Letters[((i \div 4) % 4) + 1],
      Letters[(i % 4) + 1]>>
Bulk(n) == [i \in 1..n |-> BulkText(i)]
BulkTodos(n) == [i \in 1..n |-> [task |-> BulkText(i), done |-> FALSE]]
BulkLines(n) == [i \in 1..n |-> OpenMarker \o <<" ">> \o BulkText(i)]

\* the clock counts half days. It starts at noon of day WindowWeek, so that
\* a note of day 0 is exactly WindowWeek days old, and the first tick is
\* midnight.
StartNow == 2 * WindowWeek + 1
MaxNow == StartNow + MaxTicks
Today == StartNow \div 2

SmallDoc ==
    [DefaultDoc EXCEPT !.token_usage = [total |-> 5, today |-> 1, week |-> 2],
                       !.last_updated = 0]

AbsentData == [kind |-> "absent", doc |-> DefaultDoc]
MalformedData == [kind |-> "malformed", doc |-> DefaultDoc]
SmallData == [kind |-> "ok", doc |-> SmallDoc]
\* a list is filled to one entry below its cap (0) or to its cap (1)
Fills == {0, 1}

\* documents whose lists hold Cap - 1 + e distinct entries, TextAB among them
Bulk24Data(e) ==
    [kind |-> "ok",
     doc |-> [SmallDoc EXCEPT
                !.achievements_24h = <<TextAB>> \o Bulk(Cap24h - 2 + e)]]
BulkWeekData(e) ==
    [kind |-> "ok",
     doc |-> [SmallDoc EXCEPT
                !.achievements_week = <<TextAB>> \o Bulk(CapWeek - 2 + e)]]
BulkTodoData(e) ==
    [kind |-> "ok", doc |-> [SmallDoc EXCEPT !.todo = BulkTodos(CapTodo - 1 + e)]]

Object(S, v) == [kind |-> "object", obj |-> [k \in S |-> v[k]]]
StatsValues ==
    [k \in {"total_tokens", "today_tokens", "week_tokens"} |->
        CASE k = "total_tokens" -> 100 [] k = "today_tokens" -> 10
          [] OTHER -> 50]
NoObject == [k \in {} |-> 0]
AbsentStats == [kind |-> "absent", obj |-> NoObject]
StatsFiles ==
    {AbsentStats,
     [kind |-> "garbage", obj |-> NoObject],
     [kind |-> "nonobject", obj |-> NoObject],
     Object({"total_tokens", "today_tokens", "week_tokens"}, StatsValues),
     Object({"total_tokens"}, StatsValues),
     Object({}, StatsValues)}

Note(valid, day, readable, lines) ==
    [stem |-> [valid |-> valid, day |-> day], readable |-> readable,
     lines |-> lines]

NoNotes == [exists |-> FALSE, files |-> <<>>]
Dir(files) == [exists |-> TRUE, files |-> files]
TodayNotes == Dir(<<Note(TRUE, Today, TRUE, <<LinePlain, LineShipped>>)>>)

\* note directories, the files in descending order of file name
NoteDirs ==
    {NoNotes,
     TodayNotes,
     Dir(<<Note(TRUE, Today + 1, TRUE, <<LineChecked>>),
           Note(TRUE, Today, TRUE, <<LineIndented, LineBare, LineOpen>>)>>),
     Dir(<<Note(TRUE, Today - 1, TRUE, <<LineCompleted>>),
           Note(TRUE, Today - 6, TRUE, <<LineShipped>>)>>),
     Dir(<<Note(TRUE, Today, FALSE, <<LineChecked>>),
           Note(TRUE, Today - 2, TRUE, <<LineChecked>>),
           Note(TRUE, Today - 7, TRUE, <<LineShipped>>)>>),
     Dir(<<Note(FALSE, Today, TRUE, <<LineShipped>>),
           Note(TRUE, Today - 8, TRUE, <<LineChecked, LineShipped>>)>>)}

NoHeartbeat == [exists |-> FALSE, lines |-> <<>>]
Heartbeats ==
    {NoHeartbeat,
     [exists |-> TRUE, lines |-> <<LineOpen, LinePlain, LineShipped>>],
     [exists |-> TRUE, lines |-> <<LineOpen, LineIndented, LineOpen>>],
     [exists |-> TRUE, lines |-> <<LineBare, DoneMarker>>]}

Workers == 1..NumWorkers

\* a server process between requests. seen is the file as it was when the
\* handler called load_data, data the document the handler holds; stale,
\* torn and last record what the other processes did to the file meanwhile.
IdleProc ==
    [pc |-> "idle", op |-> "none", params |-> NoParams, seen |-> AbsentData,
     data |-> DefaultDoc, status |-> 0, stale |-> FALSE, torn |-> FALSE,
     last |-> FALSE]

NoRequest == [op |-> "none", user |-> "", pass |-> "", params |-> NoParams]
NoResponse == [status |-> 0, body |-> NoParams]

-----------------------------------------------------------------------------
(* Initial states: the files as a deployment can find them.                *)

InitTokens ==
    /\ statsFile \in StatsFiles
    /\ dataFile \in {AbsentData, SmallData, MalformedData}
    /\ notes = TodayNotes
    /\ heartbeat = NoHeartbeat

InitAchievements ==
    /\ statsFile = AbsentStats
    /\ \/ notes \in NoteDirs /\ dataFile = SmallData
       \/ /\ notes \in {NoNotes, TodayNotes}
          /\ dataFile \in {Bulk24Data(e) : e \in Fills}
                            \cup {BulkWeekData(e) : e \in Fills}
    /\ heartbeat = NoHeartbeat

InitTodos ==
    /\ statsFile = AbsentStats
    /\ notes = NoNotes
    /\ \/ heartbeat \in Heartbeats /\ dataFile = SmallData
       \/ /\ heartbeat \in {NoHeartbeat, [exists |-> TRUE, lines |-> <<LineOpen>>]}
          /\ dataFile \in {BulkTodoData(e) : e \in Fills}
       \/ /\ heartbeat \in {[exists |-> TRUE, lines |-> BulkLines(CapTodo - 1 + e)]
                              : e \in Fills}
          /\ dataFile = SmallData

Init ==
    /\ InitTokens \/ InitAchievements \/ InitTodos
    /\ now = StartNow
    /\ req = NoRequest
    /\ resp = NoResponse
    /\ nmut = 0
    /\ proc = [w \in Workers |-> IdleProc]

-----------------------------------------------------------------------------
(* One server process (uvicorn.run): every handler is an async function    *)
(* without an await, so it runs from load_data to save_data in one step,   *)
(* and the event loop takes the next request after the response is sent.   *)

frame == UNCHANGED <<statsFile, notes, heartbeat, now, proc>>

\* no request is being answered
Idle == resp = NoResponse

\* verify_auth raised HTTPException(401): the handler body does not run
Deny(op, u, p) ==
    /\ req' = [op |-> op, user |-> u, pass |-> p, params |-> NoParams]
    /\ resp' = [status |-> 401, body |-> [header |-> "WWW-Authenticate"]]
    /\ UNCHANGED <<dataFile, nmut>>

\* an exception of load_data leaves the handler: internal server error
Fail(op, u, p, params) ==
    /\ req' = [op |-> op, user |-> u, pass |-> p, params |-> params]
    /\ resp' = [status |-> 500, body |-> NoParams]
    /\ UNCHANGED <<dataFile, nmut>>

\* load_data, the mutation, save_data, return {"status": "ok"}
Mutation(op, u, p, params) ==
    IF ~verify_auth(u, p) THEN Deny(op, u, p)
    ELSE IF load_raises(dataFile) THEN Fail(op, u, p, params)
    ELSE /\ nmut < MaxMutations
         /\ dataFile' = save_data(mutate(load_data(dataFile), op, params), now)
         /\ req' = [op |-> op, user |-> u, pass |-> p, params |-> params]
         /\ resp' = [status |-> 200, body |-> [status |-> "ok"]]
         /\ nmut' = nmut + 1

dashboard ==
    /\ Idle
    /\ \E u \in Users, p \in Passwords :
         IF ~verify_auth(u, p) THEN Deny("dashboard", u, p)
         ELSE IF load_raises(dataFile) THEN Fail("dashboard", u, p, NoParams)
         ELSE /\ \E a \in get_achievements(notes, dataFile, now) :
                    resp' = [status |-> 200,
                             body |-> [token_usage |->
                                          get_token_usage(statsFile, dataFile),
                                       achievements_24h |-> a.achievements_24h,
                                       achievements_week |-> a.achievements_week,
                                       todos |-> get_todos(heartbeat, dataFile)]]
              /\ req' = [op |-> "dashboard", user |-> u, pass |-> p,
                         params |-> NoParams]
              /\ UNCHANGED <<dataFile, nmut>>
    /\ frame

add_achievement ==
    /\ Idle
    /\ \E u \in Users, p \in Passwords, a \in AchievementParams :
         Mutation("achievement", u, p, a)
    /\ frame

add_todo ==
    /\ Idle
    /\ \E u \in Users, p \in Passwords, t \in TodoParams :
         Mutation("todo", u, p, t)
    /\ frame

update_tokens ==
    /\ Idle
    /\ \E u \in Users, p \in Passwords, t \in TokenValues :
         Mutation("tokens", u, p, t)
    /\ frame

\* the response leaves the server
Respond ==
    /\ ~Idle
    /\ req' = NoRequest
    /\ resp' = NoResponse
    /\ UNCHANGED <<dataFile, statsFile, notes, heartbeat, now, nmut, proc>>

\* time passes
Tick ==
    /\ Idle
    /\ now < MaxNow
    /\ now' = now + 1
    /\ UNCHANGED <<dataFile, statsFile, notes, heartbeat, req, resp, nmut, proc>>

Next ==
    dashboard \/ add_achievement \/ add_todo \/ update_tokens \/ Respond \/ Tick

Spec == Init /\ [][Next]_vars

-----------------------------------------------------------------------------
(* Several server processes on the same data.json (uvicorn workers, or two *)
(* instances of the program). Inside one process a handler still runs      *)
(* without interruption, but its file operations interleave with those of  *)
(* the other processes: load_data reads the file, save_data stamps the     *)
(* document, write_text opens the file (which truncates it) and writes the *)
(* text. The requests carry the configured credentials.                    *)

InitConc ==
    /\ dataFile \in {AbsentData, SmallData}
    /\ statsFile = AbsentStats
    /\ notes = NoNotes
    /\ heartbeat = NoHeartbeat
    /\ now = StartNow
    /\ req = NoRequest
    /\ resp = NoResponse
    /\ nmut = 0
    /\ proc = [w \in Workers |-> IdleProc]

MutationRequests ==
    {[op |-> "achievement", params |-> a] : a \in AchievementParams}
      \cup {[op |-> "todo", params |-> t] : t \in TodoParams}
      \cup {[op |-> "tokens", params |-> t] : t \in TokenValues}

concFrame == UNCHANGED <<statsFile, notes, heartbeat, now, req, resp>>

\* the document a handler holds after load_data and its mutation
handler_data(df, op, params) == mutate(load_data(df), op, params)

\* the handler starts: load_data and the mutation in memory
handler_load(w) ==
    /\ proc[w].pc = "idle"
    /\ nmut < MaxMutations
    /\ \E r \in MutationRequests :
         proc' = [proc EXCEPT ![w] =
                    IF load_raises(dataFile)
                    THEN [IdleProc EXCEPT !.pc = "done", !.op = r.op,
                                          !.params = r.params,
                                          !.seen = dataFile, !.status = 500]
                    ELSE [IdleProc EXCEPT !.pc = "loaded", !.op = r.op,
                                          !.params = r.params,
                                          !.seen = dataFile,
                                          !.data = handler_data(dataFile, r.op,
                                                                r.params)]]
    /\ nmut' = nmut + 1
    /\ UNCHANGED dataFile
    /\ concFrame

\* save_data: stamp the document, open data.json for writing (now empty)
handler_open(w) ==
    /\ proc[w].pc = "loaded"
    /\ dataFile' = MalformedData
    /\ proc' = [v \in Workers |->
                  IF v = w
                  THEN [proc[w] EXCEPT !.pc = "writing",
                                       !.data = save_data(proc[w].data, now).doc]
                  ELSE [proc[v] EXCEPT !.last = FALSE]]
    /\ UNCHANGED nmut
    /\ concFrame

\* write_text writes the text from offset 0 and the handler returns ok. If
\* another process has written since this one opened the file, the remains
\* of a longer text may follow this one: the file is then no JSON document.
handler_write(w) ==
    /\ proc[w].pc = "writing"
    /\ \/ dataFile' = [kind |-> "ok", doc |-> proc[w].data]
       \/ proc[w].torn /\ dataFile' = MalformedData
    /\ proc' = [v \in Workers |->
                  IF v = w
                  THEN [proc[w] EXCEPT !.pc = "done", !.status = 200,
                                       !.last = TRUE]
                  ELSE [proc[v] EXCEPT
                          !.last = FALSE,
                          !.stale = @ \/ proc[v].pc \in {"loaded", "writing"},
                          !.torn = @ \/ proc[v].pc = "writing"]]
    /\ UNCHANGED nmut
    /\ concFrame

\* the response leaves the process
handler_return(w) ==
    /\ proc[w].pc = "done"
    /\ proc' = [proc EXCEPT ![w] = [IdleProc EXCEPT !.last = proc[w].last]]
    /\ UNCHANGED <<dataFile, nmut>>
    /\ concFrame

NextConc ==
    \E w \in Workers :
        handler_load(w) \/ handler_open(w) \/ handler_write(w)
            \/ handler_return(w)

SpecConc == InitConc /\ [][NextConc]_vars

TypeOK ==
    /\ dataFile.kind \in {"absent", "ok", "malformed"}
    /\ now \in StartNow..MaxNow
    /\ nmut \in 0..MaxMutations
    /\ resp.status \in {0, 200, 401, 500}

-----------------------------------------------------------------------------
(* Properties.                                                             *)

\* the page was rendered: an authorized GET / answered with 200
Rendered == req.op = "dashboard" /\ resp.status = 200

\* the persisted document as a reader finds it
Persisted == IF dataFile.kind = "ok" THEN dataFile.doc ELSE DefaultDoc

\* C1: the token triple of a rendered page comes wholly from one source. If
\* the stats file holds a JSON object, each field is the object's
\* total_tokens / today_tokens / week_tokens entry (0 for a missing key),
\* whatever the persisted document says; otherwise (file absent, unreadable
\* or not an object) it is exactly the persisted token_usage triple.
C1_TokenUsageOneSource ==
    Rendered =>
        LET t == resp.body.token_usage
            o == statsFile.obj
            Entry(k) == IF k \in DOMAIN o THEN o[k] ELSE 0
        IN IF statsFile.kind = "object"
           THEN /\ t.total = Entry("total_tokens")
                /\ t.today = Entry("today_tokens")
                /\ t.week = Entry("week_tokens")
           ELSE t = Persisted.token_usage

\* a page whose triple comes from the stats file {100, 10, 50} although the
\* persisted triple was replaced by {7, 3, 4}
C1_Witness ==
    /\ Rendered
    /\ statsFile.kind = "object"
    /\ DOMAIN statsFile.obj = {"total_tokens", "today_tokens", "week_tokens"}
    /\ resp.body.token_usage = [total |-> 100, today |-> 10, week |-> 50]
    /\ dataFile.kind = "ok"
    /\ dataFile.doc.token_usage = [total |-> 7, today |-> 3, week |-> 4]

\* C2: a request to any endpoint whose user name or password differs from
\* the configured credentials is answered 401 and leaves data.json as it
\* was, last_updated included.
C2_UnauthorizedNoMutation ==
    [][(req' # req /\ req'.op # "none"
          /\ ~(req'.user = DASHBOARD_USER /\ req'.pass = DASHBOARD_PASS))
        => (resp'.status = 401 /\ dataFile' = dataFile)]_vars

\* a POST /api/todo with the right user name and a wrong password was
\* refused after an earlier mutation had stamped the document
C2_Witness ==
    /\ req.op = "todo"
    /\ req.user = DASHBOARD_USER
    /\ req.pass # DASHBOARD_PASS
    /\ resp.status = 401
    /\ nmut > 0
    /\ dataFile.kind = "ok"
    /\ dataFile.doc.last_updated = StartNow

ReadNotes == {i \in 1..Len(note_files(notes)) : ~file_skipped(note_files(notes)[i])}

\* the achievement texts found in the lines of note file i
TextsOf(i) == Range(file_achievements(note_files(notes)[i].lines))

\* the clock counts half days: day d starts at 2 * d
DateOf(i) == note_files(notes)[i].stem.day

\* the file name of note file i is today's date
DatedToday(i) == DateOf(i) = now \div 2

\* the date of note file i lies less than window days before now
Within(i, window) == now - 2 * DateOf(i) < 2 * window

Distinct24h == Cardinality(Range(collected_24h(notes, dataFile, now)))
DistinctWeek == Cardinality(Range(collected_week(notes, dataFile, now)))

Count(x, xs) == Cardinality({i \in 1..Len(xs) : xs[i] = x})

\* C4 as claimed: the text of an achievement line in a note file dated
\* today is in the returned 24h list and in the returned week list,
\* whatever else the note files and the persisted lists hold.
C4_TodayInBothLists ==
    Rendered =>
        \A i \in ReadNotes :
            DatedToday(i) =>
                \A t \in TextsOf(i) :
                    /\ t \in Range(resp.body.achievements_24h)
                    /\ t \in Range(resp.body.achievements_week)

\* C4 as amended: the text of an achievement line in a readable note file
\* dated today is in the returned 24h list unless more than 20 distinct
\* texts were collected for it, and in the returned week list unless more
\* than 50 distinct texts were collected for it.
C4_TodayInBothListsUnlessTruncated ==
    Rendered =>
        \A i \in ReadNotes :
            DatedToday(i) =>
                \A t \in TextsOf(i) :
                    /\ Distinct24h <= Cap24h
                         => t \in Range(resp.body.achievements_24h)
                    /\ DistinctWeek <= CapWeek
                         => t \in Range(resp.body.achievements_week)

\* today's note holds "- [x] sf"; sf is in both lists next to persisted
\* achievements
C4_Witness ==
    /\ Rendered
    /\ \E i \in ReadNotes :
         /\ DatedToday(i)
         /\ \E j \in 1..Len(note_files(notes)[i].lines) :
              note_files(notes)[i].lines[j] = LineShipped
    /\ TextSF \in Range(resp.body.achievements_24h)
    /\ TextSF \in Range(resp.body.achievements_week)
    /\ TextAB \in Range(resp.body.achievements_24h)
    /\ Persisted.achievements_week # <<>>

\* C5: a text found only in note files whose date is 7 or more days before
\* now, and in neither persisted list, is in neither returned list.
C5_OldNotesContributeNothing ==
    Rendered =>
        \A i \in 1..Len(note_files(notes)) :
            \A t \in TextsOf(i) :
                (/\ \A j \in 1..Len(note_files(notes)) :
                        t \in TextsOf(j) =>
                            /\ note_files(notes)[j].stem.valid
                            /\ ~Within(j, WindowWeek)
                 /\ t \notin Range(Persisted.achievements_24h)
                 /\ t \notin Range(Persisted.achievements_week))
                => /\ t \notin Range(resp.body.achievements_24h)
                   /\ t \notin Range(resp.body.achievements_week)

\* a readable note exactly 7 days old holds sf, a newer note was read too,
\* and sf is in neither list
C5_Witness ==
    /\ Rendered
    /\ \E i \in ReadNotes :
         now - 2 * DateOf(i) = 2 * WindowWeek + 1 /\ TextSF \in TextsOf(i)
    /\ \E i \in ReadNotes : Within(i, WindowWeek) /\ TextsOf(i) # {}
    /\ TextSF \notin Range(resp.body.achievements_24h)
    /\ TextSF \notin Range(resp.body.achievements_week)
    /\ resp.body.achievements_week # <<>>

\* the texts the note files contribute to a list with the given window
NoteTexts(window) ==
    UNION {TextsOf(i) : i \in {j \in ReadNotes : Within(j, window)}}

\* C6 as claimed: no returned list holds a text twice or exceeds its cap
\* (20 and 50), and a text that is both extracted from a note file and
\* stored by the API occurs exactly once in the returned list.
C6_DedupedCappedExactlyOnce ==
    Rendered =>
        LET a == resp.body.achievements_24h
            w == resp.body.achievements_week
        IN /\ Len(a) <= Cap24h /\ Len(w) <= CapWeek
           /\ \A t \in Range(a) : Count(t, a) = 1
           /\ \A t \in Range(w) : Count(t, w) = 1
           /\ \A t \in NoteTexts(Window24h) \cap Range(Persisted.achievements_24h) :
                 Count(t, a) = 1
           /\ \A t \in NoteTexts(WindowWeek) \cap Range(Persisted.achievements_week) :
                 Count(t, w) = 1

\* C6 as amended: no returned list holds a text twice or exceeds its cap; a
\* text both extracted from a note file and stored by the API occurs at most
\* once, and exactly once unless more distinct texts than the cap were
\* collected for that list.
C6_DedupedCappedAtMostOnce ==
    Rendered =>
        LET a == resp.body.achievements_24h
            w == resp.body.achievements_week
        IN /\ Len(a) <= Cap24h /\ Len(w) <= CapWeek
           /\ \A t \in Range(a) : Count(t, a) = 1
           /\ \A t \in Range(w) : Count(t, w) = 1
           /\ \A t \in NoteTexts(Window24h) \cap Range(Persisted.achievements_24h) :
                 /\ Count(t, a) <= 1
                 /\ Distinct24h <= Cap24h => Count(t, a) = 1
           /\ \A t \in NoteTexts(WindowWeek) \cap Range(Persisted.achievements_week) :
                 /\ Count(t, w) <= 1
                 /\ DistinctWeek <= CapWeek => Count(t, w) = 1

\* sf is in today's note and was posted twice with period "24h"; it occurs
\* once in the returned 24h list
C6_Witness ==
    /\ Rendered
    /\ TextSF \in NoteTexts(Window24h)
    /\ Count(TextSF, Persisted.achievements_24h) = 2
    /\ Count(TextSF, resp.body.achievements_24h) = 1

\* C7 as claimed: every text stored in persisted achievements_24h is in the
\* returned 24h list and every text stored in persisted achievements_week
\* is in the returned week list.
C7_StoredAlwaysReturned ==
    Rendered =>
        /\ Range(Persisted.achievements_24h)
             \subseteq Range(resp.body.achievements_24h)
        /\ Range(Persisted.achievements_week)
             \subseteq Range(resp.body.achievements_week)

\* C7 as amended: stored texts are returned whatever their age, each list
\* as long as no more distinct texts than its cap (20, 50) were collected
\* for it; beyond the cap the returned list is a part of the collected texts.
C7_StoredReturnedUnlessTruncated ==
    Rendered =>
        /\ Distinct24h <= Cap24h
             => Range(Persisted.achievements_24h)
                  \subseteq Range(resp.body.achievements_24h)
        /\ DistinctWeek <= CapWeek
             => Range(Persisted.achievements_week)
                  \subseteq Range(resp.body.achievements_week)
        /\ Range(resp.body.achievements_24h)
             \subseteq Range(collected_24h(notes, dataFile, now))
        /\ Range(resp.body.achievements_week)
             \subseteq Range(collected_week(notes, dataFile, now))

\* a text posted the day before the page was rendered is in the 24h list
C7_Witness ==
    /\ Rendered
    /\ nmut > 0
    /\ dataFile.kind = "ok"
    /\ dataFile.doc.last_updated \div 2 < now \div 2
    /\ TextSF \in Range(dataFile.doc.achievements_24h)
    /\ TextSF \notin NoteTexts(Window24h)
    /\ TextSF \in Range(resp.body.achievements_24h)

\* a successful POST /api/todo was just answered
TodoPosted == req.op = "todo" /\ resp.status = 200

PostedTodo == [task |-> req.params.task, done |-> req.params.done]

HeartbeatEntries == Len(heartbeat_todos(heartbeat_lines(heartbeat)))

\* C8 as claimed: after a successful POST /api/todo the list get_todos
\* returns contains the record {task, done}, without a source field,
\* whatever the heartbeat file and the persisted todos hold.
C8_PostedTodoReturned ==
    TodoPosted => PostedTodo \in Range(get_todos(heartbeat, dataFile))

\* C8 as amended: after a successful POST /api/todo the list get_todos
\* returns contains the record {task, done}, without a source field,
\* provided the heartbeat entries and the distinct persisted records together
\* number at most 30.
C8_PostedTodoReturnedUnlessTruncated ==
    TodoPosted =>
        (HeartbeatEntries + Cardinality(Range(Persisted.todo)) <= CapTodo
            => \E i \in 1..Len(get_todos(heartbeat, dataFile)) :
                  /\ get_todos(heartbeat, dataFile)[i] = PostedTodo
                  /\ DOMAIN get_todos(heartbeat, dataFile)[i] = {"task", "done"})

\* {ab, not done} was posted while HEARTBEAT.md lists "- [ ] ab": the list
\* holds the heartbeat entry and, after it, the posted record
C8_Witness ==
    /\ TodoPosted
    /\ PostedTodo = [task |-> TextAB, done |-> FALSE]
    /\ \E i, j \in 1..Len(get_todos(heartbeat, dataFile)) :
         /\ i < j
         /\ get_todos(heartbeat, dataFile)[i] =
              [task |-> TextAB, done |-> FALSE, source |-> "heartbeat"]
         /\ get_todos(heartbeat, dataFile)[j] = PostedTodo

\* C9: a successful mutation changes exactly one data field of the
\* persisted document: add_achievement appends its text at the end of
\* achievements_24h when period is "24h" and of achievements_week for any
\* other period, add_todo appends {task, done} at the end of todo,
\* update_tokens replaces token_usage; every other step leaves the file
\* alone, so stored entries are never removed or reordered.
C9_OneFieldPerMutation ==
    [][LET old == Persisted
           new == dataFile'.doc
           p == req'.params
       IN IF req' # req /\ resp'.status = 200 /\ req'.op = "achievement"
          THEN /\ dataFile'.kind = "ok"
               /\ new.achievements_24h =
                    IF p.period = "24h"
                    THEN old.achievements_24h \o <<p.text>>
                    ELSE old.achievements_24h
               /\ new.achievements_week =
                    IF p.period = "24h"
                    THEN old.achievements_week
                    ELSE old.achievements_week \o <<p.text>>
               /\ new.todo = old.todo
               /\ new.token_usage = old.token_usage
          ELSE IF req' # req /\ resp'.status = 200 /\ req'.op = "todo"
          THEN /\ dataFile'.kind = "ok"
               /\ new.todo = old.todo \o <<[task |-> p.task, done |-> p.done]>>
               /\ new.achievements_24h = old.achievements_24h
               /\ new.achievements_week = old.achievements_week
               /\ new.token_usage = old.token_usage
          ELSE IF req' # req /\ resp'.status = 200 /\ req'.op = "tokens"
          THEN /\ dataFile'.kind = "ok"
               /\ new.token_usage =
                    [total |-> p.total, today |-> p.today, week |-> p.week]
               /\ new.achievements_24h = old.achievements_24h
               /\ new.achievements_week = old.achievements_week
               /\ new.todo = old.todo
          ELSE dataFile' = dataFile]_vars

\* the second mutation of a run posted an achievement with period "month",
\* which went to the end of achievements_week
C9_Witness ==
    /\ req.op = "achievement"
    /\ resp.status = 200
    /\ req.params.period = "month"
    /\ nmut = 2
    /\ Len(dataFile.doc.achievements_week) >= 2
    /\ dataFile.doc.achievements_week[Len(dataFile.doc.achievements_week)]
         = req.params.text

Tagged(r) == "source" \in DOMAIN r

\* C10 as claimed: the returned todo list has at most 30 entries, holds no
\* two value-equal records, and consists of the heartbeat entries (source
\* "heartbeat") followed by persisted records.
C10_TodosNoDuplicates ==
    Rendered =>
        LET T == resp.body.todos
        IN /\ Len(T) <= CapTodo
           /\ \A i, j \in 1..Len(T) : i < j => T[i] # T[j]
           /\ \A i, j \in 1..Len(T) : (i < j /\ Tagged(T[j])) => Tagged(T[i])
           /\ \A i \in 1..Len(T) :
                IF Tagged(T[i]) THEN T[i].source = "heartbeat"
                ELSE T[i] \in Range(Persisted.todo)

\* C10 as amended: the returned todo list has at most 30 entries and
\* consists of the heartbeat entries (source "heartbeat", one per checklist
\* line, repeated lines included) followed by persisted records; no persisted
\* record is returned twice, so two value-equal entries are always two
\* heartbeat entries, and below 30 entries every persisted record is there.
C10_TodosNoStoredDuplicates ==
    Rendered =>
        LET T == resp.body.todos
        IN /\ Len(T) <= CapTodo
           /\ \A i, j \in 1..Len(T) :
                (i < j /\ T[i] = T[j]) => (Tagged(T[i]) /\ Tagged(T[j]))
           /\ \A i, j \in 1..Len(T) : (i < j /\ Tagged(T[j])) => Tagged(T[i])
           /\ \A i \in 1..Len(T) :
                IF Tagged(T[i]) THEN T[i].source = "heartbeat"
                ELSE T[i] \in Range(Persisted.todo)
           /\ Len(T) < CapTodo => Range(Persisted.todo) \subseteq Range(T)

\* the same record was posted twice; the page lists it once, after the
\* heartbeat entries
C10_Witness ==
    /\ Rendered
    /\ Len(Persisted.todo) = 2
    /\ Persisted.todo[1] = Persisted.todo[2]
    /\ Len(resp.body.todos) >= 3
    /\ Tagged(resp.body.todos[1])
    /\ Count(Persisted.todo[1], resp.body.todos) = 1

====
